---- MODULE Spec2Model ----
(***************************************************************************)
(* Model of the golang-fiber demonstration repository.                     *)
(*                                                                         *)
(* Two programs share one framework object (a fiber v2 App):               *)
(*   - the test file (src/unnamed/part_000): one package-level app with a  *)
(*     custom ErrorHandler, on which every test registers its route and    *)
(*     then sends requests through app.Test;                               *)
(*   - main.go: an app with the default ErrorHandler, one prefix           *)
(*     middleware and one route.                                           *)
(*                                                                         *)
(* Strings are sequences of atoms.  An atom is a run of characters that    *)
(* holds no "/" and no " "; the separator "/", the blank " ", the          *)
(* parameter marker ":" and the form escapes "+" and "%2B" are atoms of    *)
(* their own, so that splitting, prefix tests and unescaping are computed  *)
(* and not assumed.                                                        *)
(*                                                                         *)
(* The framework calls the source makes (app.Get, app.Use, app.Test,       *)
(* ctx.Next, ctx.Params, ctx.BodyParser, ...) are modelled by what fiber   *)
(* v2 does at that call:                                                   *)
(*   - a registration appends a route to the stack; app.Use routes belong  *)
(*     to every method;                                                    *)
(*   - the router walks the stack in registration order from the current   *)
(*     index and runs the first route that matches; ctx.Next() resumes     *)
(*     the walk behind it;                                                 *)
(*   - a walk that runs off the stack returns the error 404 "Cannot        *)
(*     <METHOD> <path>" (405 when another method has a matching route);    *)
(*   - every error that comes back to the app is handed to                 *)
(*     Config.ErrorHandler.                                                *)
(* Paths are taken lower-case and without a trailing slash (the defaults   *)
(* CaseSensitive=false and StrictRouting=false fold these cases).          *)
(***************************************************************************)
EXTENDS Integers, Sequences, FiniteSets, TLC

VARIABLES
    stack,       \* app.stack: the registered routes, in registration order
    customEH,    \* TRUE iff fiber.Config.ErrorHandler is set (the test app)
    pc,          \* where the request in flight is
    req,         \* the request in flight
    indexRoute,  \* ctx.indexRoute: index of the route being run (0: none yet)
    params,      \* ctx path parameters of the matched route
    err,         \* the error travelling back up the chain
    resp,        \* the response being built
    log,         \* what ran for this request, in order
    frames,      \* middleware activations waiting for ctx.Next() to return
    ehCalls,     \* number of ErrorHandler invocations for this request
    sent         \* number of responses handed back for this request

vars == <<stack, customEH, pc, req, indexRoute, params, err, resp, log, frames,
          ehCalls, sent>>

(***************************************************************************)
(* Bounds                                                                  *)
(***************************************************************************)
\* longest route stack of the test app
MaxRoutes == 2
\* most app.Use interceptors installed on the main.go app
MaxUse == 2

(***************************************************************************)
(* Strings, paths                                                          *)
(***************************************************************************)
SLASH == "/"
BLANK == " "
COLON == ":"

\* s starts with p (strings.HasPrefix)
HasPrefix(s, p) ==
    /\ Len(p) <= Len(s)
    /\ SubSeq(s, 1, Len(p)) = p

\* The segments of a path: every "/" opens a new segment; nothing else does.
RECURSIVE SplitFrom(_, _, _)
SplitFrom(p, i, acc) ==
    IF i > Len(p) THEN acc
    ELSE IF p[i] = SLASH THEN SplitFrom(p, i + 1, Append(acc, <<>>))
    ELSE IF acc = <<>> THEN SplitFrom(p, i + 1, << <<p[i]>> >>)
    ELSE SplitFrom(p, i + 1,
            [acc EXCEPT ![Len(acc)] = Append(acc[Len(acc)], p[i])])

Split(p) == SplitFrom(p, 1, <<>>)

\* The path with the given segments.
RECURSIVE Join(_)
Join(segs) ==
    IF segs = <<>> THEN <<>>
    ELSE <<SLASH>> \o Head(segs) \o Join(Tail(segs))

IsParam(seg) == seg /= <<>> /\ seg[1] = COLON
ParamName(seg) == seg[2]

(***************************************************************************)
(* Routes and the path matcher                                             *)
(***************************************************************************)
Methods == {"GET", "POST"}

\* A route of the stack.  use: registered by app.Use.  prefix: the prefix of
\* the group it was registered through (<<>> when registered on the app).
Route(method, path, use, handler, prefix) ==
    [method |-> method, path |-> path, use |-> use, handler |-> handler,
     prefix |-> prefix]

\* Pattern segments against path segments: as many segments; a parameter
\* segment takes any non-empty segment; a literal segment must be equal.
MatchSegs(pat, segs) ==
    /\ Len(pat) = Len(segs)
    /\ \A i \in 1..Len(pat) :
          IF IsParam(pat[i]) THEN segs[i] /= <<>> ELSE pat[i] = segs[i]

\* Faulty variant: the prefix is not looked at.
UseMatchAny(prefix, path) == TRUE

\* A middleware route matches every path that starts with its prefix.
UseMatch(prefix, path) ==
    prefix = <<SLASH>> \/ HasPrefix(path, prefix)

RouteMatch(r, method, path) ==
    IF r.use THEN UseMatch(r.path, path)
    ELSE r.method = method /\ MatchSegs(Split(r.path), Split(path))

\* Faulty variant: the last matching route behind index `from`.
RECURSIVE LastMatch(_, _, _, _)
LastMatch(stk, method, path, from) ==
    IF from >= Len(stk) THEN 0
    ELSE IF LastMatch(stk, method, path, from + 1) /= 0
         THEN LastMatch(stk, method, path, from + 1)
    ELSE IF RouteMatch(stk[from + 1], method, path) THEN from + 1
    ELSE 0

\* The router's walk: the first route behind index `from` that matches, or
\* 0 when the walk runs off the stack.
RECURSIVE FirstMatch(_, _, _, _)
FirstMatch(stk, method, path, from) ==
    IF from >= Len(stk) THEN 0
    ELSE IF RouteMatch(stk[from + 1], method, path) THEN from + 1
    ELSE FirstMatch(stk, method, path, from + 1)

\* The names of a pattern's parameters, in pattern order (route.Params).
RECURSIVE ParamNames(_)
ParamNames(pat) ==
    IF pat = <<>> THEN <<>>
    ELSE IF IsParam(Head(pat)) THEN <<ParamName(Head(pat))>> \o ParamNames(Tail(pat))
    ELSE ParamNames(Tail(pat))

\* Faulty variant: the captured segments in reverse order.
RECURSIVE ParamValuesReversed(_, _)
ParamValuesReversed(pat, segs) ==
    IF pat = <<>> \/ segs = <<>> THEN <<>>
    ELSE IF IsParam(Head(pat))
         THEN ParamValuesReversed(Tail(pat), Tail(segs)) \o <<Head(segs)>>
    ELSE ParamValuesReversed(Tail(pat), Tail(segs))

\* The segments the parameters captured, in pattern order (ctx.values).
RECURSIVE ParamValues(_, _)
ParamValues(pat, segs) ==
    IF pat = <<>> \/ segs = <<>> THEN <<>>
    ELSE IF IsParam(Head(pat))
         THEN <<Head(segs)>> \o ParamValues(Tail(pat), Tail(segs))
    ELSE ParamValues(Tail(pat), Tail(segs))

RECURSIVE Reverse(_)
Reverse(s) == IF s = <<>> THEN <<>> ELSE Append(Reverse(Tail(s)), Head(s))

NoParams == [names |-> <<>>, values |-> <<>>]

\* ctx.Params(name): the value at the position the name has in route.Params;
\* the empty string when the route has no such parameter.
CtxParams(p, name) ==
    IF \E k \in 1..Len(p.names) : p.names[k] = name /\ k <= Len(p.values)
    THEN p.values[CHOOSE k \in 1..Len(p.names) :
                     /\ p.names[k] = name
                     /\ \A j \in 1..(k - 1) : p.names[j] /= name]
    ELSE <<>>

(***************************************************************************)
(* Errors and responses                                                    *)
(***************************************************************************)
NoErr == [kind |-> "none", code |-> 0, msg |-> <<>>]
\* errors.New(msg), or an error of a decoding library
PlainErr(msg) == [kind |-> "plain", code |-> 0, msg |-> msg]
\* fiber.NewError(code, msg)
FiberErr(code, msg) == [kind |-> "fiber", code |-> code, msg |-> msg]

StatusOK == 200
StatusInternalServerError == 500

FreshResp == [status |-> StatusOK, body |-> <<>>]

\* ctx.SendString(s) on a response
SendString(r, s) == [r EXCEPT !.body = s]

\* What the walk returns when no route is left: 405 when a route of another
\* method matches the path, 404 otherwise.
NoRouteErr(stk, method, path) ==
    IF \E i \in 1..Len(stk) :
          /\ ~stk[i].use
          /\ stk[i].method /= method
          /\ RouteMatch(stk[i], stk[i].method, path)
    THEN FiberErr(405, <<"Method Not Allowed">>)
    ELSE FiberErr(404, <<"Cannot ", method, BLANK>> \o path)

\* Faulty variant: the status is left as the handler left it.
CustomErrorHandlerKeepsStatus(r, e) ==
    SendString(r, <<"Error: ">> \o e.msg)

\* Config.ErrorHandler of the test app.
CustomErrorHandler(r, e) ==
    SendString([r EXCEPT !.status = StatusInternalServerError],
               <<"Error: ">> \o e.msg)

\* fiber's default ErrorHandler (main.go sets none): the code of a
\* *fiber.Error, 500 for any other error; the body is the message.
DefaultErrorHandler(r, e) ==
    SendString([r EXCEPT !.status = IF e.kind = "fiber" THEN e.code
                                     ELSE StatusInternalServerError],
               e.msg)

(***************************************************************************)
(* Request bodies and their decoders                                       *)
(*                                                                         *)
(* A body on the wire is written in one format and holds key/value pairs;  *)
(* "junk" is a body that is well-formed in no format.  The Content-Type    *)
(* header is a separate input: it chooses the decoder, whatever the body   *)
(* really is.                                                              *)
(***************************************************************************)
PLUS == "+"
PCT2B == "%2B"

CTJson == "application/json"
CTForm == "application/x-www-form-urlencoded"
CTXml == "application/xml"
CTText == "text/plain"
ContentTypes == {CTJson, CTForm, CTXml, CTText}

NoBody == [wire |-> "none", kv |-> <<>>]
JunkBody == [wire |-> "junk", kv |-> <<>>]

\* url.QueryEscape on the atoms that need it: " " becomes "+", "+" becomes %2B.
FormEscape(v) ==
    [i \in 1..Len(v) |-> IF v[i] = BLANK THEN PLUS
                         ELSE IF v[i] = PLUS THEN PCT2B ELSE v[i]]

\* Faulty variant: "+" is not taken for a blank.
FormUnescapeKeepsPlus(v) ==
    [i \in 1..Len(v) |-> IF v[i] = PCT2B THEN PLUS ELSE v[i]]

\* The form decoder's unescaping: "+" is a blank, %2B is "+".
FormUnescape(v) ==
    [i \in 1..Len(v) |-> IF v[i] = PLUS THEN BLANK
                         ELSE IF v[i] = PCT2B THEN PLUS ELSE v[i]]

\* The three bodies the tests send for one logical registration.
JSONBody(rec) ==
    [wire |-> "json",
     kv |-> << <<"username", rec.Username>>, <<"password", rec.Password>>,
               <<"name", rec.Name>> >>]
FormBody(rec) ==
    [wire |-> "form",
     kv |-> << <<"username", FormEscape(rec.Username)>>,
               <<"password", FormEscape(rec.Password)>>,
               <<"name", FormEscape(rec.Name)>> >>]
XMLBody(rec) ==
    [wire |-> "xml",
     kv |-> << <<"username", rec.Username>>, <<"password", rec.Password>>,
               <<"name", rec.Name>> >>]

\* The value stored under a key; the zero value "" when the key is absent.
Lookup(kv, key) ==
    IF \E i \in 1..Len(kv) : kv[i][1] = key
    THEN kv[CHOOSE i \in 1..Len(kv) : kv[i][1] = key][2]
    ELSE <<>>

\* The struct tags of RegisterRequest: per format, the key of each field.
RegisterTags ==
    [json |-> [Username |-> "username", Password |-> "password", Name |-> "name"],
     xml  |-> [Username |-> "username", Password |-> "password", Name |-> "name"],
     form |-> [Username |-> "username", Password |-> "password", Name |-> "name"]]

\* The struct tags of LoginRequest (json only).
LoginTags == [Username |-> "username", Password |-> "password"]

ZeroRegister == [Username |-> <<>>, Password |-> <<>>, Name |-> <<>>]
ZeroLogin == [Username |-> <<>>, Password |-> <<>>]

\* json.Unmarshal into a struct with the given tags.
JSONDecode(body, tags, zero) ==
    IF body.wire = "json"
    THEN [err |-> NoErr,
          val |-> [f \in DOMAIN zero |-> Lookup(body.kv, tags[f])]]
    ELSE [err |-> PlainErr(<<"invalid character">>), val |-> zero]

\* The form decoder: a body that is no form holds none of the keys, which
\* is no error.
FormDecode(body, tags, zero) ==
    IF body.wire = "form"
    THEN [err |-> NoErr,
          val |-> [f \in DOMAIN zero |-> FormUnescape(Lookup(body.kv, tags[f]))]]
    ELSE [err |-> NoErr, val |-> zero]

\* xml.Unmarshal into a struct with the given tags.
XMLDecode(body, tags, zero) ==
    IF body.wire = "xml"
    THEN [err |-> NoErr,
          val |-> [f \in DOMAIN zero |-> Lookup(body.kv, tags[f])]]
    ELSE [err |-> PlainErr(<<"EOF">>), val |-> zero]

\* ctx.BodyParser(out): the decoder the Content-Type names; 422 for a
\* Content-Type it knows no decoder for.
BodyParser(ctype, body) ==
    IF ctype = CTJson THEN JSONDecode(body, RegisterTags.json, ZeroRegister)
    ELSE IF ctype = CTForm THEN FormDecode(body, RegisterTags.form, ZeroRegister)
    ELSE IF ctype = CTXml THEN XMLDecode(body, RegisterTags.xml, ZeroRegister)
    ELSE [err |-> FiberErr(422, <<"Unprocessable Entity">>), val |-> ZeroRegister]

(***************************************************************************)
(* The handlers of the source                                              *)
(***************************************************************************)
\* Each returns the error it returns and the response it leaves.
Result(e, r) == [err |-> e, resp |-> r]

\* func(ctx) error { return ctx.SendString("Hello World") }
HelloHandler(r) == Result(NoErr, SendString(r, <<"Hello World">>))

\* ctx.Query(key, defaultValue) for the one key the source reads
CtxQuery(q, default) == IF q = <<>> THEN default ELSE q

\* GET /hello
QueryHandler(r, q) ==
    Result(NoErr, SendString(r, <<"Hello ">> \o CtxQuery(q, <<"Guest">>)))

\* GET /user/:userId/orders/:orderId
ParamsHandler(r, p) ==
    LET userId == CtxParams(p, "userId")
        orderId == CtxParams(p, "orderId")
    IN  Result(NoErr,
               SendString(r, <<"Get Order ">> \o orderId \o <<" From ">> \o userId))

\* POST /login
LoginHandler(r, body) ==
    LET d == JSONDecode(body, LoginTags, ZeroLogin)
    IN  IF d.err /= NoErr THEN Result(d.err, r)
        ELSE Result(NoErr,
                    SendString(r, <<"Login ">> \o d.val.Username \o <<" success">>))

\* POST /register
RegisterHandler(r, ctype, body) ==
    LET d == BodyParser(ctype, body)
    IN  IF d.err /= NoErr THEN Result(d.err, r)
        ELSE Result(NoErr,
                    SendString(r, <<"Register ">> \o d.val.Username \o <<" success">>))

\* GET /error
ErrorRouteHandler(r) == Result(PlainErr(<<"Ups">>), r)

\* The interceptor of main.go: what it prints before and after ctx.Next().
BeforeLogic(lg, i) == Append(lg, [ev |-> "before", i |-> i])

\* Faulty variant: the line after ctx.Next() is skipped on an error.
AfterLogicSkippedOnError(lg, i, e) ==
    IF e = NoErr THEN Append(lg, [ev |-> "after", i |-> i]) ELSE lg

\* The line after ctx.Next() runs whatever ctx.Next() returned.
AfterLogic(lg, i, e) == Append(lg, [ev |-> "after", i |-> i])

(***************************************************************************)
(* Registration                                                            *)
(***************************************************************************)
RootPath == <<SLASH>>
OrdersPattern == Join(<< <<"user">>, <<COLON, "userId">>, <<"orders">>,
                         <<COLON, "orderId">> >>)
ErrorPath == Join(<< <<"error">> >>)
LoginPath == Join(<< <<"login">> >>)
RegisterPath == Join(<< <<"register">> >>)
ApiPrefix == Join(<< <<"api">> >>)
WebPrefix == Join(<< <<"web">> >>)
HelloSub == Join(<< <<"hello">> >>)
WorldSub == Join(<< <<"world">> >>)
ApiHelloPath == Join(<< <<"api">>, <<"hello">> >>)

\* The app.Get and app.Post calls of the tests.  The routes of the other
\* tests (POST /hello, /request, /upload, /user, /download, /view and the
\* static files under /public) match none of the requests sent below.
GetSites == { [path |-> RootPath, handler |-> "hello"],
              [path |-> HelloSub, handler |-> "query"],
              [path |-> OrdersPattern, handler |-> "params"],
              [path |-> ErrorPath, handler |-> "error"] }
PostSites == { [path |-> LoginPath, handler |-> "login"],
               [path |-> RegisterPath, handler |-> "register"] }
GroupPrefixes == {ApiPrefix, WebPrefix}
GroupSubs == {HelloSub, WorldSub}

\* app.addRoute: the route goes to the end of the stack.  (fiber folds a
\* registration that repeats the path of the method's last route into that
\* route's handler list; ctx.Next() walks a route's handlers and then the
\* stack, so the handlers stand in registration order either way.)
AddRoute(stk, r) == Append(stk, r)

\* Faulty variant: the group's prefix is dropped.
GroupPathWithoutPrefix(prefix, sub) == sub

\* The path of a route registered through a group.
GroupPath(prefix, sub) == prefix \o sub

Idle == pc = "idle"

CtxUnchanged ==
    UNCHANGED <<customEH, pc, req, indexRoute, params, err, resp, log, frames,
                ehCalls, sent>>

\* app.Get(path, handler) in a test
AppGet ==
    /\ Idle
    /\ customEH
    /\ Len(stack) < MaxRoutes
    /\ \E s \in GetSites :
          stack' = AddRoute(stack, Route("GET", s.path, FALSE, s.handler, <<>>))
    /\ CtxUnchanged

\* app.Post(path, handler) in a test
AppPost ==
    /\ Idle
    /\ customEH
    /\ Len(stack) < MaxRoutes
    /\ \E s \in PostSites :
          stack' = AddRoute(stack, Route("POST", s.path, FALSE, s.handler, <<>>))
    /\ CtxUnchanged

\* app.Group(prefix).Get(sub, handler) in TestRoutingGroup
GroupGet ==
    /\ Idle
    /\ customEH
    /\ Len(stack) < MaxRoutes
    /\ \E prefix \in GroupPrefixes, sub \in GroupSubs :
          stack' = AddRoute(stack,
                      Route("GET", GroupPath(prefix, sub), FALSE, "hello", prefix))
    /\ CtxUnchanged

UsePrefixes == {ApiPrefix, ApiHelloPath, WebPrefix}

NumUse(stk) == Cardinality({i \in 1..Len(stk) : stk[i].use})
SetupDone(stk) == \E i \in 1..Len(stk) : ~stk[i].use

\* app.Use(prefix, interceptor) in main.go, before the routes
AppUse ==
    /\ Idle
    /\ ~customEH
    /\ ~SetupDone(stack)
    /\ NumUse(stack) < MaxUse
    /\ \E prefix \in UsePrefixes :
          stack' = AddRoute(stack, Route("USE", prefix, TRUE, "mw", <<>>))
    /\ CtxUnchanged

\* app.Get("/api/hello", handler) in main.go
MainGet ==
    /\ Idle
    /\ ~customEH
    /\ ~SetupDone(stack)
    /\ stack' = AddRoute(stack, Route("GET", ApiHelloPath, FALSE, "hello", <<>>))
    /\ CtxUnchanged

(***************************************************************************)
(* Requests                                                                *)
(***************************************************************************)
\* query: the value of the query parameter "name" ("" when absent)
Request(method, path, query, ctype, body) ==
    [method |-> method, path |-> path, query |-> query, ctype |-> ctype,
     body |-> body]
NoReq == Request("", <<>>, <<>>, "", NoBody)

UserIds == {<<"1">>, <<"2">>}
OrderIds == {<<"12345">>, <<"7">>}

\* GET targets sent to the test app: those of the tests, and near misses.
TestGetPaths ==
    {Join(<< <<"user">>, u, <<"orders">>, o >>) : u \in UserIds, o \in OrderIds}
    \cup {Join(<< <<"user">>, <<"1">>, <<"orders", BLANK>>, <<"12345">> >>),
          Join(<< <<"user">>, <<"1", BLANK>>, <<"orders">>, <<"12345">> >>),
          Join(<< <<"user">>, <<"1">>, <<"orders">> >>),
          Join(<< <<"user">>, <<>>, <<"orders">>, <<"7">> >>),
          RootPath, ErrorPath, RegisterPath, HelloSub, WorldSub,
          Join(<< <<"nope">> >>)}
    \cup {p \o sub : p \in GroupPrefixes, sub \in GroupSubs}
    \cup {Join(<< <<"api">>, <<"nope">> >>),
          Join(<< <<"web">>, <<"api">>, <<"hello">> >>)}

TestPostPaths == {RegisterPath, LoginPath, Join(<< <<"nope">> >>)}

\* The logical registrations the bodies are written for.
Usernames == {<<"Roni">>, <<"Roni", BLANK, "Purwanto">>, <<"a", PLUS, "b">>}
Registration(u) ==
    [Username |-> u, Password |-> <<"rahasia">>,
     Name |-> <<"Roni", BLANK, "Purwanto">>]

Bodies ==
    {JSONBody(Registration(u)) : u \in Usernames}
    \cup {FormBody(Registration(u)) : u \in Usernames}
    \cup {XMLBody(Registration(u)) : u \in Usernames}
    \cup {JunkBody}

TestRequests ==
    {Request("GET", p, <<>>, "", NoBody) : p \in TestGetPaths}
    \cup {Request("GET", HelloSub, <<"roni">>, "", NoBody)}
    \cup {Request("POST", p, <<>>, ct, b) :
             p \in TestPostPaths, ct \in ContentTypes, b \in Bodies}

\* Targets sent to the main.go server.
MainPaths ==
    {ApiHelloPath, ApiPrefix, RootPath, HelloSub,
     Join(<< <<"api">>, <<"nope">> >>),
     Join(<< <<"api">>, <<"hello">>, <<"more">> >>),
     Join(<< <<"api", "x">> >>),
     Join(<< <<"web">>, <<"hello">> >>)}

MainRequests ==
    {Request(m, p, <<>>, "", NoBody) : m \in Methods, p \in MainPaths}

\* The request line "<method> <target> HTTP/1.0" has exactly two blanks.
WellFormedTarget(path) == \A i \in 1..Len(path) : path[i] /= BLANK

(***************************************************************************)
(* Serving one request                                                     *)
(***************************************************************************)
StartCtx(r) ==
    /\ req' = r
    /\ indexRoute' = 0
    /\ params' = NoParams
    /\ err' = NoErr
    /\ resp' = FreshResp
    /\ log' = <<>>
    /\ frames' = <<>>
    /\ ehCalls' = 0
    /\ sent' = 0

\* httptest.NewRequest(method, target, body) followed by app.Test(request)
TestRequest ==
    /\ Idle
    /\ customEH
    /\ \E r \in TestRequests :
          /\ WellFormedTarget(r.path)
          /\ StartCtx(r)
    /\ pc' = "next"
    /\ UNCHANGED <<stack, customEH>>

\* httptest.NewRequest on a target that holds a blank: the request line does
\* not parse ("malformed HTTP version") and NewRequest panics.
NewRequestPanics ==
    /\ Idle
    /\ customEH
    /\ \E r \in TestRequests :
          /\ ~WellFormedTarget(r.path)
          /\ StartCtx(r)
    /\ pc' = "panic"
    /\ UNCHANGED <<stack, customEH>>

\* The same target handed to the app unchanged (a request not built by
\* httptest.NewRequest).
RawRequest ==
    /\ Idle
    /\ customEH
    /\ \E r \in TestRequests :
          /\ ~WellFormedTarget(r.path)
          /\ StartCtx(r)
    /\ pc' = "next"
    /\ UNCHANGED <<stack, customEH>>

\* A request arriving at the listening main.go server.
MainRequest ==
    /\ Idle
    /\ ~customEH
    /\ SetupDone(stack)
    /\ \E r \in MainRequests : StartCtx(r)
    /\ pc' = "next"
    /\ UNCHANGED <<stack, customEH>>

\* app.next: run the first matching route behind indexRoute, or return the
\* no-route error.  Called by app.handler and by ctx.Next().
RouterNext ==
    /\ pc = "next"
    /\ LET i == FirstMatch(stack, req.method, req.path, indexRoute)
       IN  IF i = 0
           THEN /\ err' = NoRouteErr(stack, req.method, req.path)
                /\ pc' = "return"
                /\ UNCHANGED <<indexRoute, params>>
           ELSE /\ indexRoute' = i
                /\ params' =
                      IF stack[i].use THEN params
                      ELSE [names |-> ParamNames(Split(stack[i].path)),
                            values |-> ParamValues(Split(stack[i].path),
                                                   Split(req.path))]
                /\ pc' = IF stack[i].use THEN "mw" ELSE "handler"
                /\ err' = err
    /\ UNCHANGED <<stack, customEH, req, resp, log, frames, ehCalls, sent>>

\* The interceptor up to its call of ctx.Next().
MiddlewareBefore ==
    /\ pc = "mw"
    /\ log' = BeforeLogic(log, indexRoute)
    /\ frames' = Append(frames, indexRoute)
    /\ pc' = "next"
    /\ UNCHANGED <<stack, customEH, req, indexRoute, params, err, resp, ehCalls,
                   sent>>

\* Faulty variant: ctx.Next() returns into the outermost activation.
OldestFrame(f) == 1

\* The activation ctx.Next() returns into: the innermost one.
InnermostFrame(f) == Len(f)

RemoveAt(f, k) == SubSeq(f, 1, k - 1) \o SubSeq(f, k + 1, Len(f))

\* The interceptor from the return of ctx.Next() on: it prints and returns
\* the error it was given.
MiddlewareAfter ==
    /\ pc = "return"
    /\ frames /= <<>>
    /\ LET k == InnermostFrame(frames)
       IN  /\ log' = AfterLogic(log, frames[k], err)
           /\ frames' = RemoveAt(frames, k)
    /\ UNCHANGED <<stack, customEH, pc, req, indexRoute, params, err, resp,
                   ehCalls, sent>>

Handling(kind) ==
    /\ pc = "handler"
    /\ stack[indexRoute].handler = kind

Returned(res) ==
    /\ err' = res.err
    /\ resp' = res.resp
    /\ log' = Append(log, [ev |-> "handler", i |-> indexRoute])
    /\ pc' = "return"
    /\ UNCHANGED <<stack, customEH, req, indexRoute, params, frames, ehCalls,
                   sent>>

RunHello == Handling("hello") /\ Returned(HelloHandler(resp))
RunQuery == Handling("query") /\ Returned(QueryHandler(resp, req.query))
RunParams == Handling("params") /\ Returned(ParamsHandler(resp, params))
RunLogin == Handling("login") /\ Returned(LoginHandler(resp, req.body))
RunRegister ==
    Handling("register") /\ Returned(RegisterHandler(resp, req.ctype, req.body))
RunError == Handling("error") /\ Returned(ErrorRouteHandler(resp))

ErrorHandler(r, e) ==
    IF customEH THEN CustomErrorHandler(r, e) ELSE DefaultErrorHandler(r, e)

\* app.handler after app.next has returned: an error goes to the
\* ErrorHandler; the response is handed back.
AppHandler ==
    /\ pc = "return"
    /\ frames = <<>>
    /\ IF err /= NoErr
       THEN /\ resp' = ErrorHandler(resp, err)
            /\ ehCalls' = ehCalls + 1
            /\ log' = Append(log, [ev |-> "eh", i |-> 0])
       ELSE UNCHANGED <<resp, ehCalls, log>>
    /\ sent' = sent + 1
    /\ pc' = "done"
    /\ UNCHANGED <<stack, customEH, req, indexRoute, params, err, frames>>

\* The caller has its response; the context is released.
Release ==
    /\ pc = "done"
    /\ pc' = "idle"
    /\ req' = NoReq
    /\ indexRoute' = 0
    /\ params' = NoParams
    /\ err' = NoErr
    /\ resp' = FreshResp
    /\ log' = <<>>
    /\ frames' = <<>>
    /\ ehCalls' = 0
    /\ sent' = 0
    /\ UNCHANGED <<stack, customEH>>

(***************************************************************************)
(* Specifications                                                          *)
(***************************************************************************)
InitCtx ==
    /\ pc = "idle"
    /\ req = NoReq
    /\ indexRoute = 0
    /\ params = NoParams
    /\ err = NoErr
    /\ resp = FreshResp
    /\ log = <<>>
    /\ frames = <<>>
    /\ ehCalls = 0
    /\ sent = 0

\* The test app: var app = fiber.New(fiber.Config{ErrorHandler: ...})
Init ==
    /\ stack = <<>>
    /\ customEH = TRUE
    /\ InitCtx

Next ==
    \/ AppGet
    \/ AppPost
    \/ GroupGet
    \/ TestRequest
    \/ NewRequestPanics
    \/ RawRequest
    \/ RouterNext
    \/ RunHello
    \/ RunQuery
    \/ RunParams
    \/ RunLogin
    \/ RunRegister
    \/ RunError
    \/ AppHandler
    \/ Release

Spec == Init /\ [][Next]_vars

\* The app of main.go: fiber.New(fiber.Config{...}) without an ErrorHandler
InitMain ==
    /\ stack = <<>>
    /\ customEH = FALSE
    /\ InitCtx

NextMain ==
    \/ AppUse
    \/ MainGet
    \/ MainRequest
    \/ RouterNext
    \/ MiddlewareBefore
    \/ RunHello
    \/ MiddlewareAfter
    \/ AppHandler
    \/ Release

SpecMain == InitMain /\ [][NextMain]_vars

(***************************************************************************)
(* Properties                                                              *)
(***************************************************************************)
Serving == pc \in {"handler", "return", "done"} /\ indexRoute > 0
Done == pc = "done"
Events(ev) == {k \in 1..Len(log) : log[k].ev = ev}
HandlerRan == Events("handler") /= {}
Ran(ev, i) == \E k \in 1..Len(log) : log[k] = [ev |-> ev, i |-> i]
Failed == err /= NoErr

\* C1: a request whose handler returned an error gets exactly one
\* ErrorHandler invocation and exactly one response, with status 500 and
\* body "Error: " followed by the error's message ("Error: Ups" for the
\* /error route).
C1_ErrorBoundary ==
    /\ ehCalls <= 1
    /\ sent <= 1
    /\ (Done /\ HandlerRan /\ Failed) =>
          /\ ehCalls = 1
          /\ sent = 1
          /\ resp = [status |-> 500, body |-> <<"Error: ">> \o err.msg]
          /\ stack[indexRoute].handler = "error" => resp.body = <<"Error: ", "Ups">>

C1_Witness ==
    /\ Done
    /\ HandlerRan
    /\ stack[indexRoute].handler = "error"
    /\ resp = [status |-> 500, body |-> <<"Error: ", "Ups">>]
    /\ ehCalls = 1

\* C2 (as claimed): a request that matches no registered route is answered
\* 404 and the ErrorHandler is not invoked for it.
C2_NotFoundBypassesBoundary ==
    (Done /\ ~HandlerRan) => (resp.status = 404 /\ ehCalls = 0)

\* C3: when a route with N named parameters matches, exactly its N names
\* are bound, each to the path segment at the parameter's position, before
\* the handler runs; the orders handler answers with segments 4 and 2.
C3_ParamsBound ==
    Serving =>
       LET pat == Split(stack[indexRoute].path)
           segs == Split(req.path)
           at == {i \in 1..Len(pat) : IsParam(pat[i])}
       IN  /\ Len(params.names) = Cardinality(at)
           /\ Len(params.values) = Cardinality(at)
           /\ {params.names[k] : k \in 1..Len(params.names)}
                 = {ParamName(pat[i]) : i \in at}
           /\ \A i \in at : CtxParams(params, ParamName(pat[i])) = segs[i]
           /\ (Done /\ stack[indexRoute].handler = "params") =>
                 resp = [status |-> 200,
                         body |-> <<"Get Order ">> \o segs[4]
                                     \o <<" From ">> \o segs[2]]

C3_Witness ==
    /\ Done
    /\ HandlerRan
    /\ stack[indexRoute].path = OrdersPattern
    /\ req.path = Join(<< <<"user">>, <<"1">>, <<"orders">>, <<"12345">> >>)
    /\ resp.body = <<"Get Order ", "12345", " From ", "1">>

\* The body a test writes for a registration in the format of a Content-Type.
BodyFor(ctype, rec) ==
    IF ctype = CTJson THEN JSONBody(rec)
    ELSE IF ctype = CTForm THEN FormBody(rec)
    ELSE XMLBody(rec)

\* C4: POST /register with the same username written as JSON, as a form and
\* as XML, each under its own Content-Type, decodes the same Username:
\* the answer is 200 "Register <username> success" in all three formats.
C4_SameUsernameAllFormats ==
    \A u \in Usernames :
       (/\ Done
        /\ HandlerRan
        /\ stack[indexRoute].handler = "register"
        /\ req.ctype \in {CTJson, CTForm, CTXml}
        /\ req.body = BodyFor(req.ctype, Registration(u)))
       => resp = [status |-> 200,
                  body |-> <<"Register ">> \o u \o <<" success">>]

C4_Witness ==
    /\ Done
    /\ HandlerRan
    /\ stack[indexRoute].handler = "register"
    /\ req.ctype = CTForm
    /\ req.body = FormBody(Registration(<<"Roni", BLANK, "Purwanto">>))
    /\ resp.body = <<"Register ", "Roni", BLANK, "Purwanto", " success">>

IsGroupPath(prefix, path) == \E sub \in GroupSubs : path = prefix \o sub

\* C7: a route registered through a group with prefix P and sub-path S is
\* served at exactly P+S: a request served by a group's route has the path
\* P+S of that very group, and GET P+S answers 200 "Hello World" exactly
\* when that group registered S (the other group's routes do not count).
C7_GroupPrefix ==
    /\ (Serving /\ stack[indexRoute].prefix /= <<>>) =>
          /\ IsGroupPath(stack[indexRoute].prefix, req.path)
          /\ stack[indexRoute].path = req.path
    /\ (Done /\ req.method = "GET") =>
          \A prefix \in GroupPrefixes, sub \in GroupSubs :
             (req.path = prefix \o sub) =>
                ((resp = [status |-> 200, body |-> <<"Hello World">>])
                  <=> (\E i \in 1..Len(stack) :
                          /\ stack[i].prefix = prefix
                          /\ stack[i].path = prefix \o sub))

C7_Witness ==
    /\ Done
    /\ HandlerRan
    /\ req.path = WebPrefix \o HelloSub
    /\ resp = [status |-> 200, body |-> <<"Hello World">>]
    /\ stack[indexRoute].prefix = WebPrefix
    /\ \E i \in 1..Len(stack) : stack[i].prefix = ApiPrefix

\* C9: the handler invoked is the earliest registered route that matches
\* method and path, it is the only one invoked, and a later registration
\* never changes which route serves a request that already had one.
C9_EarliestServes ==
    /\ Cardinality(Events("handler")) <= 1
    /\ Serving =>
          /\ RouteMatch(stack[indexRoute], req.method, req.path)
          /\ \A j \in 1..(indexRoute - 1) :
                ~RouteMatch(stack[j], req.method, req.path)
          /\ \A k \in Events("handler") : log[k].i = indexRoute

C9_RegistrationKeepsRouting ==
    (stack' /= stack) =>
       \A r \in TestRequests :
          LET i == FirstMatch(stack, r.method, r.path, 0)
          IN  i /= 0 => /\ FirstMatch(stack', r.method, r.path, 0) = i
                        /\ stack'[i] = stack[i]

C9_FirstRegisteredWins ==
    [](C9_EarliestServes) /\ [][C9_RegistrationKeepsRouting]_vars

C9_Witness ==
    /\ Done
    /\ HandlerRan
    /\ indexRoute = 1
    /\ Len(stack) >= 2
    /\ RouteMatch(stack[2], req.method, req.path)

BlankOrdersPath ==
    Join(<< <<"user">>, <<"1">>, <<"orders", BLANK>>, <<"12345">> >>)

\* C10 (as claimed): the target "/user/1/orders /12345" matches
\* /user/:userId/orders/:orderId with status 200, userId "1" and orderId
\* "12345".
C10_BlankSegmentMatches ==
    (/\ pc \in {"done", "panic"}
     /\ req.method = "GET"
     /\ req.path = BlankOrdersPath
     /\ \E i \in 1..Len(stack) : stack[i].path = OrdersPattern)
    => /\ Done
       /\ resp = [status |-> 200, body |-> <<"Get Order ", "12345", " From ", "1">>]
       /\ CtxParams(params, "userId") = <<"1">>
       /\ CtxParams(params, "orderId") = <<"12345">>

(***************************************************************************)
(* Properties of the interceptor chain (main.go)                           *)
(***************************************************************************)
UseIndices == {i \in 1..Len(stack) : stack[i].use}

\* The interceptors whose prefix the request path starts with, in
\* registration order.
RECURSIVE Applicable(_, _)
Applicable(i, path) ==
    IF i > Len(stack) THEN <<>>
    ELSE IF stack[i].use /\ HasPrefix(path, stack[i].path)
         THEN <<i>> \o Applicable(i + 1, path)
    ELSE Applicable(i + 1, path)

EventsOf(ev, idx) == [k \in 1..Len(idx) |-> [ev |-> ev, i |-> idx[k]]]

\* C5: an interceptor installed on a prefix has run for every request
\* served by a route under that prefix, and has run for no request whose
\* path does not start with the prefix.
C5_PrefixMiddleware ==
    \A i \in UseIndices :
       /\ Ran("before", i) => HasPrefix(req.path, stack[i].path)
       /\ (/\ Serving
           /\ ~stack[indexRoute].use
           /\ HasPrefix(stack[indexRoute].path, stack[i].path))
          => Ran("before", i)

C5_Witness ==
    /\ Done
    /\ HandlerRan
    /\ req.path = ApiHelloPath
    /\ \E i \in UseIndices : Ran("before", i)
    /\ \E j \in UseIndices : ~Ran("before", j)

\* C6: for a served request the chain is nested in registration order: the
\* "before" steps of the applicable interceptors in registration order,
\* then the handler, then the "after" steps in reverse registration order;
\* the order depends on the registrations and the path only.
C6_OnionOrder ==
    (Done /\ HandlerRan) =>
       LET idx == Applicable(1, req.path)
       IN  log = EventsOf("before", idx)
                 \o <<[ev |-> "handler", i |-> indexRoute]>>
                 \o EventsOf("after", Reverse(idx))

C6_Witness ==
    /\ Done
    /\ HandlerRan
    /\ Len(Applicable(1, req.path)) >= 2
    /\ Len(log) >= 5

\* C8 (as claimed): when ctx.Next() returned an error, the "after" step of
\* the /api interceptor has not run for that request.
C8_AfterSkippedOnFailure ==
    (Done /\ Failed) =>
       \A i \in UseIndices : stack[i].path = ApiPrefix => ~Ran("after", i)

\* C8 (amended): when ctx.Next() returned an error, every interceptor that
\* ran its "before" step still runs its "after" step, in reverse
\* registration order, and returns the error unchanged; only then is the
\* error handed, exactly once, to the error handler.
C8_AfterRunsThenBoundary ==
    (Done /\ Failed) =>
       LET idx == Applicable(1, req.path)
       IN  /\ log = EventsOf("before", idx)
                    \o EventsOf("after", Reverse(idx))
                    \o <<[ev |-> "eh", i |-> 0]>>
           /\ ehCalls = 1
           /\ err = NoRouteErr(stack, req.method, req.path)
           /\ resp = [status |-> err.code, body |-> err.msg]

C8_Witness ==
    /\ Done
    /\ Failed
    /\ Events("before") /= {}
    /\ Events("after") /= {}
    /\ ehCalls = 1

====
